---------------------------- MODULE Spec2Model ----------------------------
(***************************************************************************)
(* A model of simplejson::Parser (src/src/json.hpp): the recursive-descent *)
(* JSON parser as a state machine over an explicit call stack.  A          *)
(* character is its code (0..255, the value of static_cast<unsigned char>),*)
(* a string is a sequence of codes, and the cursor pos_ is a 0-based       *)
(* offset, so input_[pos_] is input[pos + 1].                              *)
(***************************************************************************)
EXTENDS Integers, Sequences, FiniteSets, TLC

VARIABLES
    input,    \* Parser::input_ : the borrowed text, never changed
    pos,      \* Parser::pos_   : the cursor
    stack,    \* the C++ call stack of the parser's member functions
    ret,      \* the value the last returning call handed to its caller
    status,   \* "running" | "ok" (parse() returned) | "error" (an exception left parse())
    err,      \* what() of the exception that left parse(), "" when none
    result    \* the JsonValue parse() returned, NoValue when none

vars == <<input, pos, stack, ret, status, err, result>>

---------------------------------------------------------------------------
(* Characters *)

\* The codes of the characters the model's inputs are written with.
Ord ==
    ("NUL" :> 0) @@ ("SOH" :> 1) @@ ("\t" :> 9) @@ ("\n" :> 10) @@ ("VT" :> 11) @@
    ("FF" :> 12) @@ ("\r" :> 13) @@ (" " :> 32) @@ ("\"" :> 34) @@ ("+" :> 43) @@
    ("," :> 44) @@ ("-" :> 45) @@ ("." :> 46) @@ ("/" :> 47) @@ ("0" :> 48) @@
    ("1" :> 49) @@ ("2" :> 50) @@ ("3" :> 51) @@ ("4" :> 52) @@ ("5" :> 53) @@
    ("6" :> 54) @@ ("7" :> 55) @@ ("8" :> 56) @@ ("9" :> 57) @@ (":" :> 58) @@
    ("?" :> 63) @@ ("A" :> 65) @@ ("D" :> 68) @@ ("E" :> 69) @@ ("F" :> 70) @@
    ("L" :> 76) @@ ("T" :> 84) @@ ("[" :> 91) @@ ("\\" :> 92) @@ ("]" :> 93) @@
    ("a" :> 97) @@ ("b" :> 98) @@ ("d" :> 100) @@ ("e" :> 101) @@ ("f" :> 102) @@
    ("l" :> 108) @@ ("n" :> 110) @@ ("r" :> 114) @@ ("s" :> 115) @@ ("t" :> 116) @@
    ("u" :> 117) @@ ("x" :> 120) @@ ("{" :> 123) @@ ("}" :> 125) @@ ("BS" :> 8) @@
    ("0xE9" :> 233) @@ ("B" :> 66) @@ ("C" :> 67) @@ ("c" :> 99)

\* A string literal of the source: the codes of the named characters.
Str(names) == [i \in 1..Len(names) |-> Ord[names[i]]]

\* std::isdigit in the "C" locale (the program never calls setlocale).
isdigit(ch) == ch \in Ord["0"]..Ord["9"]

\* std::isspace in the "C" locale: space, \t, \n, \v, \f, \r.
isspace(ch) == ch \in {Ord[" "], Ord["\t"], Ord["\n"], Ord["VT"], Ord["FF"], Ord["\r"]}

---------------------------------------------------------------------------
(* JsonValue *)

NoValue == [kind |-> "none"]
JsonNull == [kind |-> "null"]
JsonBool(b) == [kind |-> "bool", b |-> b]
JsonNumber(d) == [kind |-> "number", d |-> d]
JsonString(s) == [kind |-> "string", s |-> s]
JsonArray(a) == [kind |-> "array", a |-> a]
JsonObject(o) == [kind |-> "object", o |-> o]
\* the char parse_unicode_escape returns (not a JsonValue)
CharResult(c) == [kind |-> "char", c |-> c]

\* JsonObject is std::map<std::string, JsonValue>: a function on its set of keys.
EmptyObject == [k \in {} |-> NoValue]

\* a mutant of emplace: std::map::insert_or_assign, the last pair of a key wins
emplace_last_wins(object, key, value) ==
    [k \in DOMAIN object \cup {key} |-> IF k = key THEN value ELSE object[k]]

\* std::map::emplace: inserts only when the key is absent.
emplace(object, key, value) ==
    IF key \in DOMAIN object
    THEN object
    ELSE [k \in DOMAIN object \cup {key} |-> IF k = key THEN value ELSE object[k]]

---------------------------------------------------------------------------
(* Cursor primitives *)

eof(in, p) == p >= Len(in)

\* input_[pos_]; callers have checked !eof
peek(in, p) == in[p + 1]

Min(a, b) == IF a < b THEN a ELSE b

\* std::string_view::substr(pos, n): at most n characters, cut at the end.
substr(in, p, n) == SubSeq(in, p + 1, Min(p + n, Len(in)))

\* a mutant of match: compares only the characters the input still has
match_available(in, p, text) ==
    substr(in, p, Len(text)) = SubSeq(text, 1, Len(substr(in, p, Len(text))))

\* Parser::match: whether the text is wholly present at the cursor.
match(in, p, text) == substr(in, p, Len(text)) = text

---------------------------------------------------------------------------
(* std::stod on the substring parse_number matched.  A double is modelled  *)
(* as sign, significant decimal digits (no leading or trailing zero) and a *)
(* power of ten: neg, digits, exp stand for +-digits * 10^exp.  Binary     *)
(* rounding is not modelled.                                               *)

RECURSIVE IndexOf(_, _, _)
\* the first index >= i of s holding a character of set, Len(s) + 1 when none
IndexOf(s, set, i) ==
    IF i > Len(s) THEN Len(s) + 1
    ELSE IF s[i] \in set THEN i
    ELSE IndexOf(s, set, i + 1)

RECURSIVE DigitsValue(_)
\* the integer a sequence of digit characters writes
DigitsValue(s) ==
    IF s = <<>> THEN 0
    ELSE 10 * DigitsValue(SubSeq(s, 1, Len(s) - 1)) + (s[Len(s)] - Ord["0"])

RECURSIVE StripLeadingZeros(_)
StripLeadingZeros(s) ==
    IF s # <<>> /\ s[1] = 0 THEN StripLeadingZeros(Tail(s)) ELSE s

RECURSIVE StripTrailingZeros(_)
StripTrailingZeros(s) ==
    IF s # <<>> /\ s[Len(s)] = 0
    THEN StripTrailingZeros(SubSeq(s, 1, Len(s) - 1))
    ELSE s

\* the decimal value of a text of the JSON number grammar
DecimalOf(text) ==
    LET neg == text[1] = Ord["-"]
        body == IF neg THEN Tail(text) ELSE text
        ePos == IndexOf(body, {Ord["e"], Ord["E"]}, 1)
        dotPos == Min(IndexOf(body, {Ord["."]}, 1), ePos)
        intPart == SubSeq(body, 1, dotPos - 1)
        fracPart == SubSeq(body, dotPos + 1, ePos - 1)
        expPart == SubSeq(body, ePos + 1, Len(body))
        expSigned == expPart # <<>> /\ expPart[1] \in {Ord["+"], Ord["-"]}
        expNeg == expPart # <<>> /\ expPart[1] = Ord["-"]
        expDigits == IF expSigned THEN Tail(expPart) ELSE expPart
        expVal == IF expNeg THEN 0 - DigitsValue(expDigits) ELSE DigitsValue(expDigits)
        all == intPart \o fracPart
        lead == StripLeadingZeros([i \in 1..Len(all) |-> all[i] - Ord["0"]])
        sig == StripTrailingZeros(lead)
    IN  IF sig = <<>>
        THEN [neg |-> neg, digits |-> <<>>, exp |-> 0]
        ELSE [neg |-> neg, digits |-> sig,
              exp |-> expVal - Len(fracPart) + (Len(lead) - Len(sig))]

\* the decimal exponent of the leading digit
Magnitude(d) == Len(d.digits) + d.exp - 1

RECURSIVE FractionLess(_, _)
\* 0.a < 0.b for digit sequences a, b
FractionLess(a, b) ==
    IF b = <<>> THEN FALSE
    ELSE IF a = <<>> THEN StripLeadingZeros(b) # <<>>
    ELSE IF a[1] # b[1] THEN a[1] < b[1]
    ELSE FractionLess(Tail(a), Tail(b))

\* DBL_MAX = 1.7976931348623157e308, DBL_MIN = 2.2250738585072014e-308
DblMaxDigits == <<1, 7, 9, 7, 6, 9, 3, 1, 3, 4, 8, 6, 2, 3, 1, 5, 7>>
DblMinDigits == <<2, 2, 2, 5, 0, 7, 3, 8, 5, 8, 5, 0, 7, 2, 0, 1, 4>>

\* strtod overflows to HUGE_VAL with errno = ERANGE: std::stod throws std::out_of_range
Overflows(d) ==
    /\ d.digits # <<>>
    /\ \/ Magnitude(d) > 308
       \/ Magnitude(d) = 308 /\ FractionLess(DblMaxDigits, d.digits)

\* the result is below the smallest normal double: whether strtod then sets ERANGE
\* is implementation-defined, so std::stod may throw or return
Underflows(d) ==
    /\ d.digits # <<>>
    /\ \/ Magnitude(d) < 0 - 308
       \/ Magnitude(d) = 0 - 308 /\ FractionLess(d.digits, DblMinDigits)

---------------------------------------------------------------------------
(* The exceptions that can leave parse(): what() of each throw, grouped    *)
(* under the error kinds the messages stand for.                           *)

UnexpectedEnd ==
    {"Unexpected end of input", "Unexpected end of input in number",
     "Unexpected end of input in unicode escape"}
InvalidValue == {"Invalid JSON value", "Expected 'null'"}
InvalidBoolean == {"Invalid boolean value"}
InvalidNumber == {"Invalid number"}
InvalidNumberFraction == {"Invalid number fraction"}
InvalidNumberExponent == {"Invalid number exponent"}
InvalidEscape == {"Invalid escape sequence", "Invalid unicode escape"}
InvalidControlChar == {"Invalid control character in string"}
UnterminatedString == {"Unterminated string", "Unterminated escape sequence"}
ExpectedArraySeparator == {"Expected ',' or ']' in array"}
ExpectedObjectKey == {"Expected string key in object"}
ExpectedColon == {"Expected ':'"}
ExpectedObjectSeparator == {"Expected ',' or '}' in object"}
TrailingContent == {"Unexpected characters after JSON value"}
\* std::out_of_range thrown by std::stod: not a ParseError
NumericConversion == {"stod"}

---------------------------------------------------------------------------
(* The call stack.  A frame is the member function, the line it is at and  *)
(* its locals.                                                             *)

Frame(fn, pc, loc) == [fn |-> fn, pc |-> pc, loc |-> loc]

Top == stack[Len(stack)]

\* the parser is running and its innermost call is fn at line pc
At(fn, pc) ==
    /\ status = "running"
    /\ stack # <<>>
    /\ Top.fn = fn
    /\ Top.pc = pc

\* the innermost call moves to line pc with locals loc
Goto(pc, loc) ==
    stack' = [stack EXCEPT ![Len(stack)] = Frame(Top.fn, pc, loc)]

\* the innermost call, its locals now loc, calls fn and will resume at line pc
Call(fn, entry, calleeLoc, pc, loc) ==
    stack' = Append([stack EXCEPT ![Len(stack)] = Frame(Top.fn, pc, loc)],
                    Frame(fn, entry, calleeLoc))

\* the innermost call returns v
Return(v) ==
    /\ stack' = SubSeq(stack, 1, Len(stack) - 1)
    /\ ret' = v

\* an exception leaves every frame and parse() itself, the cursor at p
Throw(message, p) ==
    /\ status' = "error"
    /\ err' = message
    /\ stack' = <<>>
    /\ pos' = p
    /\ UNCHANGED <<input, ret, result>>

\* the callee frames
CallSkipWhitespace(pc, loc) == Call("skip_whitespace", "l305", NoValue, pc, loc)
CallParseValue(pc, loc) == Call("parse_value", "l76", NoValue, pc, loc)

---------------------------------------------------------------------------
(* Parser::parse, lines 64-72 *)

parse_l65 ==
    /\ At("parse", "l65")
    /\ CallSkipWhitespace("l66", Top.loc)
    /\ UNCHANGED <<input, pos, ret, status, err, result>>

parse_l66 ==
    /\ At("parse", "l66")
    /\ CallParseValue("l67", Top.loc)
    /\ UNCHANGED <<input, pos, ret, status, err, result>>

\* JsonValue value = <the value parse_value returned>; skip_whitespace();
parse_l67 ==
    /\ At("parse", "l67")
    /\ CallSkipWhitespace("l68", ret)
    /\ UNCHANGED <<input, pos, ret, status, err, result>>

parse_l68 ==
    /\ At("parse", "l68")
    /\ IF ~eof(input, pos)
       THEN Throw("Unexpected characters after JSON value", pos)
       ELSE /\ status' = "ok"
            /\ result' = Top.loc
            /\ stack' = <<>>
            /\ UNCHANGED <<input, pos, ret, err>>

---------------------------------------------------------------------------
(* Parser::skip_whitespace, lines 304-308: one step is one test of the     *)
(* loop condition, followed by the loop body or by the return.             *)

\* a mutant of skip_whitespace: the loop body does not advance
skip_whitespace_stuck ==
    /\ At("skip_whitespace", "l305")
    /\ IF ~eof(input, pos) /\ isspace(peek(input, pos))
       THEN UNCHANGED vars
       ELSE /\ stack' = SubSeq(stack, 1, Len(stack) - 1)
            /\ UNCHANGED <<input, pos, ret, status, err, result>>

skip_whitespace ==
    /\ At("skip_whitespace", "l305")
    /\ IF ~eof(input, pos) /\ isspace(peek(input, pos))
       THEN /\ pos' = pos + 1
            /\ UNCHANGED <<input, stack, ret, status, err, result>>
       ELSE /\ stack' = SubSeq(stack, 1, Len(stack) - 1)
            /\ UNCHANGED <<input, pos, ret, status, err, result>>

---------------------------------------------------------------------------
(* Parser::parse_value, lines 75-98 *)

parse_value ==
    /\ At("parse_value", "l76")
    /\ IF eof(input, pos)
       THEN Throw("Unexpected end of input", pos)
       ELSE LET ch == peek(input, pos)
                call(fn, entry, loc) ==
                    /\ Call(fn, entry, loc, "return", NoValue)
                    /\ UNCHANGED <<input, pos, ret, status, err, result>>
            IN  CASE ch = Ord["n"] -> call("parse_null", "l101", NoValue)
                  [] ch \in {Ord["t"], Ord["f"]} -> call("parse_bool", "l106", NoValue)
                  [] ch = Ord["\""] -> call("parse_string", "l162", <<>>)
                  [] ch = Ord["["] -> call("parse_array", "l227", <<>>)
                  [] ch = Ord["{"] -> call("parse_object", "l252", NoValue)
                  [] OTHER ->
                        IF ch = Ord["-"] \/ isdigit(ch)
                        THEN call("parse_number", "l117", pos)
                        ELSE Throw("Invalid JSON value", pos)

\* return parse_xxx();
parse_value_return ==
    /\ At("parse_value", "return")
    /\ Return(ret)
    /\ UNCHANGED <<input, pos, status, err, result>>

---------------------------------------------------------------------------
(* Parser::parse_null and Parser::parse_bool, lines 100-113, with          *)
(* Parser::expect(string_view), lines 292-296                              *)

NullText == Str(<<"n", "u", "l", "l">>)
TrueText == Str(<<"t", "r", "u", "e">>)
FalseText == Str(<<"f", "a", "l", "s", "e">>)

parse_null ==
    /\ At("parse_null", "l101")
    /\ IF match(input, pos, NullText)
       THEN /\ pos' = pos + Len(NullText)
            /\ Return(JsonNull)
            /\ UNCHANGED <<input, status, err, result>>
       ELSE Throw("Expected 'null'", pos)

parse_bool ==
    /\ At("parse_bool", "l106")
    /\ IF match(input, pos, TrueText)
       THEN /\ pos' = pos + Len(TrueText)
            /\ Return(JsonBool(TRUE))
            /\ UNCHANGED <<input, status, err, result>>
       ELSE IF match(input, pos, FalseText)
       THEN /\ pos' = pos + Len(FalseText)
            /\ Return(JsonBool(FALSE))
            /\ UNCHANGED <<input, status, err, result>>
       ELSE Throw("Invalid boolean value", pos)

---------------------------------------------------------------------------
(* Parser::parse_number, lines 115-159.  The frame's local is start.  Each *)
(* digit loop takes one step per test of its condition.                    *)

\* lines 117-122: the optional sign
parse_number_sign ==
    /\ At("parse_number", "l117")
    /\ LET p == IF peek(input, pos) = Ord["-"] THEN pos + 1 ELSE pos
       IN  IF eof(input, p)
           THEN Throw("Unexpected end of input in number", p)
           ELSE /\ pos' = p
                /\ Goto("l124", Top.loc)
                /\ UNCHANGED <<input, ret, status, err, result>>

\* a mutant of parse_number_int: a leading 0 starts a run of digits like any digit
parse_number_int_any_digit ==
    /\ At("parse_number", "l124")
    /\ IF isdigit(peek(input, pos))
       THEN /\ Goto("l127", Top.loc)
            /\ UNCHANGED <<input, pos, ret, status, err, result>>
       ELSE Throw("Invalid number", pos)

\* lines 124-132: a single 0, or the first of a run of digits
parse_number_int ==
    /\ At("parse_number", "l124")
    /\ IF peek(input, pos) = Ord["0"]
       THEN /\ pos' = pos + 1
            /\ Goto("l134", Top.loc)
            /\ UNCHANGED <<input, ret, status, err, result>>
       ELSE IF isdigit(peek(input, pos))
       THEN /\ Goto("l127", Top.loc)
            /\ UNCHANGED <<input, pos, ret, status, err, result>>
       ELSE Throw("Invalid number", pos)

\* while (!eof() && isdigit(peek())) advance();  at line here, then line next
DigitLoop(here, next) ==
    /\ At("parse_number", here)
    /\ IF ~eof(input, pos) /\ isdigit(peek(input, pos))
       THEN /\ pos' = pos + 1
            /\ UNCHANGED <<input, stack, ret, status, err, result>>
       ELSE /\ Goto(next, Top.loc)
            /\ UNCHANGED <<input, pos, ret, status, err, result>>

parse_number_int_digits == DigitLoop("l127", "l134")

\* lines 134-138: the optional fraction needs a digit after the point
parse_number_fraction ==
    /\ At("parse_number", "l134")
    /\ IF ~eof(input, pos) /\ peek(input, pos) = Ord["."]
       THEN IF eof(input, pos + 1) \/ ~isdigit(peek(input, pos + 1))
            THEN Throw("Invalid number fraction", pos + 1)
            ELSE /\ pos' = pos + 1
                 /\ Goto("l139", Top.loc)
                 /\ UNCHANGED <<input, ret, status, err, result>>
       ELSE /\ Goto("l144", Top.loc)
            /\ UNCHANGED <<input, pos, ret, status, err, result>>

parse_number_fraction_digits == DigitLoop("l139", "l144")

\* lines 144-151: the optional exponent, its optional sign, and a digit
parse_number_exponent ==
    /\ At("parse_number", "l144")
    /\ IF ~eof(input, pos) /\ peek(input, pos) \in {Ord["e"], Ord["E"]}
       THEN LET p == IF ~eof(input, pos + 1)
                        /\ peek(input, pos + 1) \in {Ord["+"], Ord["-"]}
                     THEN pos + 2
                     ELSE pos + 1
            IN  IF eof(input, p) \/ ~isdigit(peek(input, p))
                THEN Throw("Invalid number exponent", p)
                ELSE /\ pos' = p
                     /\ Goto("l152", Top.loc)
                     /\ UNCHANGED <<input, ret, status, err, result>>
       ELSE /\ Goto("l157", Top.loc)
            /\ UNCHANGED <<input, pos, ret, status, err, result>>

parse_number_exponent_digits == DigitLoop("l152", "l157")

\* lines 157-158: std::stod of input_.substr(start, pos_ - start)
parse_number_stod ==
    /\ At("parse_number", "l157")
    /\ \E d \in {DecimalOf(substr(input, Top.loc, pos - Top.loc))}, erange \in BOOLEAN :
        \* erange: whether strtod reports ERANGE for a result that underflows
        IF Overflows(d) \/ (Underflows(d) /\ erange)
        THEN Throw("stod", pos)
        ELSE /\ Return(JsonNumber(d))
             /\ UNCHANGED <<input, pos, status, err, result>>

---------------------------------------------------------------------------
(* Parser::expect(char), lines 298-302 *)

\* whether expect(expected) returns rather than throws
expect_ok(in, p, expected) == ~eof(in, p) /\ peek(in, p) = expected

\* a mutant of expect_pos: advance() without its test of eof()
expect_pos_unchecked(in, p) == p + 1

\* the cursor after expect(char): advance() has run unless eof() cut the test short
expect_pos(in, p) == IF eof(in, p) THEN p ELSE p + 1

---------------------------------------------------------------------------
(* Parser::parse_string, lines 161-196.  The frame's local is result.  One *)
(* step is one iteration of the while loop.                                *)

parse_string_open ==
    /\ At("parse_string", "l162")
    /\ IF expect_ok(input, pos, Ord["\""])
       THEN /\ pos' = expect_pos(input, pos)
            /\ Goto("l164", Top.loc)
            /\ UNCHANGED <<input, ret, status, err, result>>
       ELSE Throw("Expected '\"'", expect_pos(input, pos))

\* a mutant of SimpleEscape: an unknown escape letter stands for itself
SimpleEscape_lenient ==
    (Ord["\""] :> Ord["\""]) @@ (Ord["\\"] :> Ord["\\"]) @@ (Ord["/"] :> Ord["/"]) @@
    (Ord["b"] :> Ord["BS"]) @@ (Ord["f"] :> Ord["FF"]) @@ (Ord["n"] :> Ord["\n"]) @@
    (Ord["r"] :> Ord["\r"]) @@ (Ord["t"] :> Ord["\t"]) @@ (Ord["x"] :> Ord["x"])

\* the switch of lines 174-182: the character each one-letter escape stands for
SimpleEscape ==
    (Ord["\""] :> Ord["\""]) @@ (Ord["\\"] :> Ord["\\"]) @@ (Ord["/"] :> Ord["/"]) @@
    (Ord["b"] :> Ord["BS"]) @@ (Ord["f"] :> Ord["FF"]) @@ (Ord["n"] :> Ord["\n"]) @@
    (Ord["r"] :> Ord["\r"]) @@ (Ord["t"] :> Ord["\t"])

parse_string_char ==
    /\ At("parse_string", "l164")
    /\ IF eof(input, pos)
       THEN Throw("Unterminated string", pos)
       ELSE LET ch == peek(input, pos)
                push(c, p) ==
                    /\ pos' = p
                    /\ Goto("l164", Append(Top.loc, c))
                    /\ UNCHANGED <<input, ret, status, err, result>>
            IN  IF ch = Ord["\""]
                THEN /\ pos' = pos + 1
                     /\ Return(JsonString(Top.loc))
                     /\ UNCHANGED <<input, status, err, result>>
                ELSE IF ch = Ord["\\"]
                THEN IF eof(input, pos + 1)
                     THEN Throw("Unterminated escape sequence", pos + 1)
                     ELSE LET escaped == peek(input, pos + 1)
                          IN  IF escaped \in DOMAIN SimpleEscape
                              THEN push(SimpleEscape[escaped], pos + 2)
                              ELSE IF escaped = Ord["u"]
                              THEN /\ pos' = pos + 2
                                   /\ Call("parse_unicode_escape", "l200",
                                           [i |-> 0, value |-> 0], "l184", Top.loc)
                                   /\ UNCHANGED <<input, ret, status, err, result>>
                              ELSE Throw("Invalid escape sequence", pos + 2)
                ELSE IF ch < 32
                THEN Throw("Invalid control character in string", pos + 1)
                ELSE push(ch, pos + 1)

\* line 184: result.push_back(parse_unicode_escape());
parse_string_unicode ==
    /\ At("parse_string", "l184")
    /\ Goto("l164", Append(Top.loc, ret.c))
    /\ UNCHANGED <<input, pos, ret, status, err, result>>

---------------------------------------------------------------------------
(* Parser::parse_unicode_escape, lines 198-224.  The frame's locals are i  *)
(* and value (a uint32_t: four hex digits never exceed 0xFFFF, so it does  *)
(* not wrap).                                                              *)

\* lines 206-214: the value of a hex digit, -1 for any other character
HexValue(ch) ==
    IF ch \in Ord["0"]..Ord["9"] THEN ch - Ord["0"]
    ELSE IF ch \in Ord["a"]..Ord["f"] THEN 10 + ch - Ord["a"]
    ELSE IF ch \in Ord["A"]..Ord["F"] THEN 10 + ch - Ord["A"]
    ELSE 0 - 1

\* a mutant of UnicodeChar: every value that fits a byte is passed through
UnicodeChar_byte(value) == IF value <= 255 THEN value ELSE Ord["?"]

\* lines 218-223: the char returned for the escape's value
UnicodeChar(value) == IF value <= 127 THEN value ELSE Ord["?"]

\* one iteration of the for loop, lines 200-215
parse_unicode_escape_digit ==
    /\ At("parse_unicode_escape", "l200")
    /\ IF eof(input, pos)
       THEN Throw("Unexpected end of input in unicode escape", pos)
       ELSE LET ch == peek(input, pos)
                i == Top.loc.i + 1
                value == Top.loc.value * 16 + HexValue(ch)
            IN  IF HexValue(ch) < 0
                THEN Throw("Invalid unicode escape", pos + 1)
                ELSE /\ pos' = pos + 1
                     /\ Goto(IF i < 4 THEN "l200" ELSE "l218", [i |-> i, value |-> value])
                     /\ UNCHANGED <<input, ret, status, err, result>>

parse_unicode_escape_return ==
    /\ At("parse_unicode_escape", "l218")
    /\ Return(CharResult(UnicodeChar(Top.loc.value)))
    /\ UNCHANGED <<input, pos, status, err, result>>

---------------------------------------------------------------------------
(* Parser::parse_array, lines 226-249.  The frame's local is array.        *)

\* lines 227-229
parse_array_open ==
    /\ At("parse_array", "l227")
    /\ IF expect_ok(input, pos, Ord["["])
       THEN /\ pos' = expect_pos(input, pos)
            /\ CallSkipWhitespace("l230", Top.loc)
            /\ UNCHANGED <<input, ret, status, err, result>>
       ELSE Throw("Expected '['", expect_pos(input, pos))

\* lines 230-233: peek() throws at the end of the input
parse_array_first ==
    /\ At("parse_array", "l230")
    /\ IF eof(input, pos)
       THEN Throw("Unexpected end of input", pos)
       ELSE IF peek(input, pos) = Ord["]"]
       THEN /\ pos' = pos + 1
            /\ Return(JsonArray(Top.loc))
            /\ UNCHANGED <<input, status, err, result>>
       ELSE /\ Goto("l235", Top.loc)
            /\ UNCHANGED <<input, pos, ret, status, err, result>>

\* line 235: the call of parse_value
parse_array_element ==
    /\ At("parse_array", "l235")
    /\ CallParseValue("l236", Top.loc)
    /\ UNCHANGED <<input, pos, ret, status, err, result>>

\* line 235: array.push_back(<the value returned>); line 236: skip_whitespace();
parse_array_push ==
    /\ At("parse_array", "l236")
    /\ CallSkipWhitespace("l237", Append(Top.loc, ret))
    /\ UNCHANGED <<input, pos, ret, status, err, result>>

\* lines 237-248
parse_array_separator ==
    /\ At("parse_array", "l237")
    /\ IF eof(input, pos)
       THEN Throw("Unexpected end of input", pos)
       ELSE IF peek(input, pos) = Ord[","]
       THEN /\ pos' = pos + 1
            /\ CallSkipWhitespace("l235", Top.loc)
            /\ UNCHANGED <<input, ret, status, err, result>>
       ELSE IF peek(input, pos) = Ord["]"]
       THEN /\ pos' = pos + 1
            /\ Return(JsonArray(Top.loc))
            /\ UNCHANGED <<input, status, err, result>>
       ELSE Throw("Expected ',' or ']' in array", pos)

---------------------------------------------------------------------------
(* Parser::parse_object, lines 251-282.  The frame's locals are object and *)
(* key.                                                                    *)

\* lines 252-254
parse_object_open ==
    /\ At("parse_object", "l252")
    /\ IF expect_ok(input, pos, Ord["{"])
       THEN /\ pos' = expect_pos(input, pos)
            /\ CallSkipWhitespace("l255", [object |-> EmptyObject, key |-> <<>>])
            /\ UNCHANGED <<input, ret, status, err, result>>
       ELSE Throw("Expected '{'", expect_pos(input, pos))

\* lines 255-258
parse_object_first ==
    /\ At("parse_object", "l255")
    /\ IF eof(input, pos)
       THEN Throw("Unexpected end of input", pos)
       ELSE IF peek(input, pos) = Ord["}"]
       THEN /\ pos' = pos + 1
            /\ Return(JsonObject(Top.loc.object))
            /\ UNCHANGED <<input, status, err, result>>
       ELSE /\ Goto("l260", Top.loc)
            /\ UNCHANGED <<input, pos, ret, status, err, result>>

\* lines 260-263: the key must start with a quote; the call of parse_string
parse_object_key ==
    /\ At("parse_object", "l260")
    /\ IF eof(input, pos)
       THEN Throw("Unexpected end of input", pos)
       ELSE IF peek(input, pos) # Ord["\""]
       THEN Throw("Expected string key in object", pos)
       ELSE /\ Call("parse_string", "l162", <<>>, "l263", Top.loc)
            /\ UNCHANGED <<input, pos, ret, status, err, result>>

\* line 263: key = <the string returned>.as_string(); line 264: skip_whitespace();
parse_object_key_return ==
    /\ At("parse_object", "l263")
    /\ CallSkipWhitespace("l265", [Top.loc EXCEPT !.key = ret.s])
    /\ UNCHANGED <<input, pos, ret, status, err, result>>

\* lines 265-266
parse_object_colon ==
    /\ At("parse_object", "l265")
    /\ IF expect_ok(input, pos, Ord[":"])
       THEN /\ pos' = expect_pos(input, pos)
            /\ CallSkipWhitespace("l267", Top.loc)
            /\ UNCHANGED <<input, ret, status, err, result>>
       ELSE Throw("Expected ':'", expect_pos(input, pos))

\* line 267: the call of parse_value
parse_object_value ==
    /\ At("parse_object", "l267")
    /\ CallParseValue("l268", Top.loc)
    /\ UNCHANGED <<input, pos, ret, status, err, result>>

\* line 268: object.emplace(key, value); line 269: skip_whitespace();
parse_object_emplace ==
    /\ At("parse_object", "l268")
    /\ CallSkipWhitespace("l270",
            [Top.loc EXCEPT !.object = emplace(Top.loc.object, Top.loc.key, ret)])
    /\ UNCHANGED <<input, pos, ret, status, err, result>>

\* lines 270-281
parse_object_separator ==
    /\ At("parse_object", "l270")
    /\ IF eof(input, pos)
       THEN Throw("Unexpected end of input", pos)
       ELSE IF peek(input, pos) = Ord[","]
       THEN /\ pos' = pos + 1
            /\ CallSkipWhitespace("l260", Top.loc)
            /\ UNCHANGED <<input, ret, status, err, result>>
       ELSE IF peek(input, pos) = Ord["}"]
       THEN /\ pos' = pos + 1
            /\ Return(JsonObject(Top.loc.object))
            /\ UNCHANGED <<input, status, err, result>>
       ELSE Throw("Expected ',' or '}' in object", pos)

---------------------------------------------------------------------------
(* The inputs: every text made of a prefix of a family and at most MaxTail *)
(* further characters of the family's alphabet; every object literal of at *)
(* most MaxPairs pairs; every string literal holding one \u escape over    *)
(* HexAlphabet, or two escapes of EscapeGroups.                            *)

MaxTail == 2
MaxPairs == 3

Chars(names) == {Ord[n] : n \in names}

\* every string over alphabet of length at most n
Tails(alphabet, n) == UNION {[1..k -> alphabet] : k \in 0..n}

\* the prefixes, each followed by at most n characters of the alphabet
Family(prefixes, alphabet, n) ==
    {Str(p) \o t : p \in prefixes, t \in Tails(Chars(alphabet), n)}

StructureFamily(n) ==
    Family({<<>>, <<"[">>, <<"[", "1">>, <<"[", "1", ",">>, <<"[", "0">>, <<"0">>,
            <<"{">>, <<"{", "\"", "a", "\"">>, <<"{", "\"", "a", "\"", ":", "1">>,
            <<"{", "\"", "a", "\"", ":", "1", ",">>, <<"[", "[", "]">>,
            <<"{", "\"", "\"", ":">>},
           {"\"", ",", "}", "]", "1", " ", "VT", "x"}, n)

LiteralFamily(n) ==
    Family({<<>>, <<"n", "u">>, <<"n", "u", "l">>, <<"t", "r">>, <<"t", "r", "u">>,
            <<"f", "a", "l">>, <<"f", "a", "l", "s">>, <<"[", "n", "u", "l">>,
            <<"\n", "t", "r", "u">>, <<"n">>, <<"t">>, <<"f">>, <<"T", "r", "u">>},
           {"l", "L", "e", "u", "s", " ", "]"}, n)

NumberFamily(n) ==
    Family({<<>>, <<"-">>, <<"1">>, <<"0">>, <<"1", ".">>, <<"1", "e">>, <<"[", "0">>,
            <<"1", "E", "+">>, <<"1", "e", "3", "0">>, <<"1", "e", "-", "3", "0">>,
            <<"2", "e", "3", "0">>, <<"0", ".", "0">>, <<"[", "-", "0">>},
           {"0", "1", "9", ".", "e", "E", "-", "]"}, n)

StringFamily(n) ==
    Family({<<"\"">>, <<"\"", "a">>, <<"\"", "\\">>, <<"\"", "\\", "u">>,
            <<"\"", "\\", "u", "0", "0">>, <<"\"", "\\", "u", "0", "0", "7">>,
            <<"\"", "\\", "u", "D", "8", "3">>, <<"[", "\"", "\\">>},
           {"\"", "\\", "u", "n", "x", "7", "SOH", "0xE9"}, n)

\* the object literals, each with the pairs it was written from
Keys == {<<"a">>, <<"b">>}
Values == {<<"1">>, <<"2">>, <<"{", "}">>}
PairTexts == {[key |-> k, value |-> v] : k \in Keys, v \in Values}

PairText(q) == Str(<<"\"">> \o q.key \o <<"\"", ":">> \o q.value)

RECURSIVE ObjectBody(_)
\* the pairs of a list, comma-separated
ObjectBody(l) ==
    IF l = <<>> THEN <<>>
    ELSE IF Len(l) = 1 THEN PairText(l[1])
    ELSE ObjectBody(SubSeq(l, 1, Len(l) - 1)) \o Str(<<",">>) \o PairText(l[Len(l)])

ObjectText(l) == Str(<<"{">>) \o ObjectBody(l) \o Str(<<"}">>)

\* the lists of at most n pairs
PairListsTo(n) == UNION {[1..k -> PairTexts] : k \in 0..n}

PairLists == PairListsTo(MaxPairs)

ObjectInputs == {ObjectText(l) : l \in PairLists}

\* the string literals of \u escapes, each escape four hex digits
HexAlphabet == {"0", "7", "8", "a", "F"}
EscapeGroups ==
    {<<"D", "8", "3", "D">>, <<"D", "E", "0", "0">>, <<"0", "0", "4", "1">>,
     <<"0", "0", "e", "9">>, <<"0", "0", "0", "0">>, <<"f", "f", "f", "f">>,
     <<"0", "0", "7", "f">>, <<"0", "0", "8", "0">>, <<"b", "C", "c", "B">>}

EscapeText(g) == Str(<<"\\", "u">> \o g)

EscapePairInputs ==
    {Str(<<"\"">>) \o EscapeText(g) \o EscapeText(h) \o Str(<<"\"">>) :
        g \in EscapeGroups, h \in EscapeGroups}

UnicodeInputs ==
    {Str(<<"\"">>) \o EscapeText(g) \o Str(<<"\"">>) : g \in [1..4 -> HexAlphabet]}
        \cup EscapePairInputs

Inputs ==
    StructureFamily(MaxTail) \cup LiteralFamily(MaxTail) \cup NumberFamily(MaxTail)
        \cup StringFamily(MaxTail) \cup ObjectInputs \cup UnicodeInputs

\* the shorter inputs, on which the runs are followed to their end
ShortInputs ==
    StructureFamily(MaxTail - 1) \cup LiteralFamily(MaxTail - 1)
        \cup NumberFamily(MaxTail - 1) \cup StringFamily(MaxTail - 1)
        \cup {ObjectText(l) : l \in PairListsTo(MaxPairs - 1)} \cup EscapePairInputs

---------------------------------------------------------------------------
(* The state machine *)

\* Parser(input) : input_(input), pos_(0), then the call of parse()
InitOn(inputs) ==
    /\ input \in inputs
    /\ pos = 0
    /\ stack = <<Frame("parse", "l65", NoValue)>>
    /\ ret = NoValue
    /\ status = "running"
    /\ err = ""
    /\ result = NoValue

Init == InitOn(Inputs)

Next ==
    \/ parse_l65
    \/ parse_l66
    \/ parse_l67
    \/ parse_l68
    \/ skip_whitespace
    \/ parse_value
    \/ parse_value_return
    \/ parse_null
    \/ parse_bool
    \/ parse_number_sign
    \/ parse_number_int
    \/ parse_number_int_digits
    \/ parse_number_fraction
    \/ parse_number_fraction_digits
    \/ parse_number_exponent
    \/ parse_number_exponent_digits
    \/ parse_number_stod
    \/ parse_string_open
    \/ parse_string_char
    \/ parse_string_unicode
    \/ parse_unicode_escape_digit
    \/ parse_unicode_escape_return
    \/ parse_array_open
    \/ parse_array_first
    \/ parse_array_element
    \/ parse_array_push
    \/ parse_array_separator
    \/ parse_object_open
    \/ parse_object_first
    \/ parse_object_key
    \/ parse_object_key_return
    \/ parse_object_colon
    \/ parse_object_value
    \/ parse_object_emplace
    \/ parse_object_separator

Spec == Init /\ [][Next]_vars

\* the program runs to completion: parse() is an ordinary synchronous call
FairSpec == InitOn(ShortInputs) /\ [][Next]_vars /\ WF_vars(Next)

---------------------------------------------------------------------------
(* Vocabulary of the claims *)

\* the whitespace of the JSON grammar: space, tab, newline, carriage return
JsonWhitespace == Chars({" ", "\t", "\n", "\r"})

\* skip_whitespace is running, called by fn, which will resume at line pc
Skipping(fn, pc) ==
    /\ status = "running"
    /\ Len(stack) >= 2
    /\ Top.fn = "skip_whitespace"
    /\ stack[Len(stack) - 1].fn = fn
    /\ stack[Len(stack) - 1].pc = pc

\* the cursor is on a character that is not JSON whitespace
AtSignificant == ~eof(input, pos) /\ peek(input, pos) \notin JsonWhitespace

\* this step ends the parse with an error of the kind, returning no value
FailsWith(kind) ==
    /\ status' = "error"
    /\ err' \in kind
    /\ result' = NoValue

---------------------------------------------------------------------------
(* C1: parse() succeeds only on one value optionally surrounded by         *)
(* whitespace: once the value is parsed, the trailing skip passes over     *)
(* nothing but whitespace, any character left after it makes parse() fail  *)
(* with TrailingContent and return no value, and parse() returns a value   *)
(* only with the whole input consumed.                                     *)
C1_TrailingContent ==
    [][/\ (Skipping("parse", "l68") /\ AtSignificant) => pos' = pos
       /\ (At("parse", "l68") /\ ~eof(input, pos)) => FailsWith(TrailingContent)
       /\ status' = "ok" => (pos' = Len(input) /\ result' # NoValue)]_vars

---------------------------------------------------------------------------
(* C2: skip_whitespace consumes only space, tab, newline and carriage      *)
(* return: a step of skip_whitespace that moves the cursor moves it over   *)
(* one of these four characters.                                           *)
C2_SkipsOnlyJsonWhitespace ==
    [][(status = "running" /\ stack # <<>> /\ Top.fn = "skip_whitespace" /\ pos' # pos)
            => peek(input, pos) \in JsonWhitespace]_vars

---------------------------------------------------------------------------
(* C3: an object literal that parses yields the Object mapping each key to *)
(* the value of the key's first pair in the input; later pairs of a key    *)
(* already present change nothing.                                         *)

\* the object literals of the inputs, each with the list of pairs it writes
ObjectCases == {[text |-> ObjectText(l), pairs |-> l] : l \in PairLists}

\* the JsonValue a value text of the object literals writes
ValueOfText(v) ==
    CASE v = <<"1">> -> JsonNumber([neg |-> FALSE, digits |-> <<1>>, exp |-> 0])
      [] v = <<"2">> -> JsonNumber([neg |-> FALSE, digits |-> <<2>>, exp |-> 0])
      [] v = <<"{", "}">> -> JsonObject(EmptyObject)

\* the Object of a list of pairs under the first-wins policy
FirstWins(l) ==
    [k \in {Str(l[i].key) : i \in 1..Len(l)} |->
        LET first == CHOOSE i \in 1..Len(l) :
                        /\ Str(l[i].key) = k
                        /\ \A j \in 1..(i - 1) : Str(l[j].key) # k
        IN  ValueOfText(l[first].value)]

C3_FirstWins ==
    (status = "ok" /\ input[1] = Ord["{"]) =>
        \A c \in ObjectCases : c.text = input => result = JsonObject(FirstWins(c.pairs))

\* {"a":1,"a":2} has parsed to {"a": 1}
C3_Witness ==
    /\ status = "ok"
    /\ input = Str(<<"{", "\"", "a", "\"", ":", "1", ",", "\"", "a", "\"", ":", "2", "}">>)
    /\ result = JsonObject(Str(<<"a">>) :> ValueOfText(<<"1">>))

---------------------------------------------------------------------------
(* C4: each \u escape of four hex digits (either case) of value v appends  *)
(* exactly one character to the string: the character v when v <= 0x7F,    *)
(* '?' when v > 0x7F.  Surrogate halves each become their own '?'.         *)

\* the value of each hex digit, as a table
HexTable ==
    (Ord["0"] :> 0) @@ (Ord["1"] :> 1) @@ (Ord["2"] :> 2) @@ (Ord["3"] :> 3) @@
    (Ord["4"] :> 4) @@ (Ord["5"] :> 5) @@ (Ord["6"] :> 6) @@ (Ord["7"] :> 7) @@
    (Ord["8"] :> 8) @@ (Ord["9"] :> 9) @@ (Ord["a"] :> 10) @@ (Ord["b"] :> 11) @@
    (Ord["c"] :> 12) @@ (Ord["d"] :> 13) @@ (Ord["e"] :> 14) @@ (Ord["f"] :> 15) @@
    (Ord["A"] :> 10) @@ (Ord["B"] :> 11) @@ (Ord["C"] :> 12) @@ (Ord["D"] :> 13) @@
    (Ord["E"] :> 14) @@ (Ord["F"] :> 15)

\* the value of the four hex digits that end at the cursor p
CodePoint(in, p) ==
    4096 * HexTable[in[p - 3]] + 256 * HexTable[in[p - 2]]
        + 16 * HexTable[in[p - 1]] + HexTable[in[p]]

\* the character the claim gives an escape of value v
EscapeChar(v) == IF v <= 127 THEN v ELSE Ord["?"]

\* the string a literal of the escapes at the cursors ps (the ends of their digits) holds
EscapesString(in, ps) == JsonString([i \in 1..Len(ps) |-> EscapeChar(CodePoint(in, ps[i]))])

C4_UnicodeEscape ==
    [][/\ At("parse_string", "l184") =>
            /\ status' = "running"
            /\ stack'[Len(stack')].loc = Append(Top.loc, EscapeChar(CodePoint(input, pos)))
       /\ (status' = "ok" /\ input \in UnicodeInputs) =>
            result' = IF Len(input) = 8
                      THEN EscapesString(input, <<7>>)
                      ELSE EscapesString(input, <<7, 13>>)]_vars

\* "😀" has parsed to the two characters "??"
C4_Witness ==
    /\ status = "ok"
    /\ input = Str(<<"\"", "\\", "u", "D", "8", "3", "D", "\\", "u", "D", "E", "0", "0", "\"">>)
    /\ result = JsonString(Str(<<"?", "?">>))

---------------------------------------------------------------------------
(* C5: null, true and false are matched exactly and case-sensitively: a    *)
(* value that starts with n goes to parse_null and one that starts with t  *)
(* or f to parse_bool; there the whole keyword at the cursor is consumed   *)
(* and gives its value, and anything else fails with InvalidValue or       *)
(* InvalidBoolean and no other kind.                                       *)

\* the characters of text stand at the cursor p, each one present and equal
KeywordAt(in, p, text) ==
    \A i \in 1..Len(text) : p + i <= Len(in) /\ in[p + i] = text[i]

\* this step returns v to the caller and moves the cursor by n
Yields(v, n) ==
    /\ status' = "running"
    /\ ret' = v
    /\ pos' = pos + n

C5_Literals ==
    [][/\ (At("parse_value", "l76") /\ ~eof(input, pos) /\ peek(input, pos) = Ord["n"])
            => (status' = "running" /\ stack'[Len(stack')].fn = "parse_null")
       /\ (At("parse_value", "l76") /\ ~eof(input, pos)
                /\ peek(input, pos) \in {Ord["t"], Ord["f"]})
            => (status' = "running" /\ stack'[Len(stack')].fn = "parse_bool")
       /\ At("parse_null", "l101") =>
            IF KeywordAt(input, pos, Str(<<"n", "u", "l", "l">>))
            THEN Yields(JsonNull, 4)
            ELSE FailsWith(InvalidValue \cup InvalidBoolean)
       /\ At("parse_bool", "l106") =>
            IF KeywordAt(input, pos, Str(<<"t", "r", "u", "e">>))
            THEN Yields(JsonBool(TRUE), 4)
            ELSE IF KeywordAt(input, pos, Str(<<"f", "a", "l", "s", "e">>))
            THEN Yields(JsonBool(FALSE), 5)
            ELSE FailsWith(InvalidValue \cup InvalidBoolean)]_vars

\* parse("nulL") has failed with InvalidValue
C5_Witness ==
    /\ status = "error"
    /\ input = Str(<<"n", "u", "l", "L">>)
    /\ err \in InvalidValue
    /\ result = NoValue

---------------------------------------------------------------------------
(* C6: a number whose integer part starts with 0 ends its integer part at  *)
(* that 0: parse_number never consumes a digit right after it, so a text   *)
(* that starts with 0 and a digit fails with TrailingContent, and an array *)
(* that starts with 0 and a digit fails with ExpectedArraySeparator.       *)

\* the index in the input of the first digit of the number that starts at cursor start
FirstDigit(in, start) == IF in[start + 1] = Ord["-"] THEN start + 2 ELSE start + 1

\* the input has a 0 at index z and a digit right after it
ZeroThenDigit(in, z) ==
    /\ z + 1 <= Len(in)
    /\ in[z] = Ord["0"]
    /\ isdigit(in[z + 1])

C6_LeadingZero ==
    /\ (status = "running" /\ stack # <<>> /\ Top.fn = "parse_number")
            => (ZeroThenDigit(input, FirstDigit(input, Top.loc))
                    => pos <= FirstDigit(input, Top.loc))
    /\ (status # "running" /\ ZeroThenDigit(input, 1))
            => (status = "error" /\ err \in TrailingContent /\ result = NoValue)
    /\ (status # "running" /\ Len(input) >= 1 /\ input[1] = Ord["["]
                /\ ZeroThenDigit(input, 2))
            => (status = "error" /\ err \in ExpectedArraySeparator /\ result = NoValue)

\* parse("[01]") has failed with ExpectedArraySeparator, the cursor on the 1
C6_Witness ==
    /\ status = "error"
    /\ input = Str(<<"[", "0", "1", "]">>)
    /\ err \in ExpectedArraySeparator
    /\ pos = 2

---------------------------------------------------------------------------
(* C7: in an object, the skips after a ',', after a key and after a pair   *)
(* pass over nothing but whitespace; then the character after a ',' must   *)
(* be the '"' of a key, anything else (a '}' too) failing with             *)
(* ExpectedObjectKey; a key must be followed by ':', anything else failing *)
(* with ExpectedColon; and a pair must be followed by ',' or '}', anything *)
(* else failing with ExpectedObjectSeparator.                              *)
C7_ObjectSyntax ==
    [][/\ (Skipping("parse_object", "l260") /\ AtSignificant) => pos' = pos
       /\ (At("parse_object", "l260") /\ ~eof(input, pos) /\ peek(input, pos) # Ord["\""])
            => FailsWith(ExpectedObjectKey)
       /\ (At("parse_object", "l260") /\ ~eof(input, pos) /\ peek(input, pos) = Ord["\""])
            => (status' = "running" /\ stack'[Len(stack')].fn = "parse_string")
       /\ (Skipping("parse_object", "l265") /\ AtSignificant) => pos' = pos
       /\ (At("parse_object", "l265") /\ ~(~eof(input, pos) /\ peek(input, pos) = Ord[":"]))
            => FailsWith(ExpectedColon)
       /\ (Skipping("parse_object", "l270") /\ AtSignificant) => pos' = pos
       /\ (At("parse_object", "l270") /\ ~eof(input, pos)
                /\ peek(input, pos) \notin {Ord[","], Ord["}"]})
            => FailsWith(ExpectedObjectSeparator)]_vars

---------------------------------------------------------------------------
(* C8: in an array, the skip after an element passes over nothing but      *)
(* whitespace; then ',' continues with another value, which is required,   *)
(* ']' closes the array, any other character fails with                    *)
(* ExpectedArraySeparator and the end of the input fails with              *)
(* UnexpectedEnd; each element is appended after those before it.          *)
C8_ArraySyntax ==
    [][/\ (Skipping("parse_array", "l237") /\ AtSignificant) => pos' = pos
       /\ At("parse_array", "l237") =>
            IF eof(input, pos) THEN FailsWith(UnexpectedEnd)
            ELSE IF peek(input, pos) = Ord[","]
            THEN /\ status' = "running"
                 /\ pos' = pos + 1
                 /\ stack'[Len(stack') - 1] = Frame("parse_array", "l235", Top.loc)
            ELSE IF peek(input, pos) = Ord["]"]
            THEN Yields(JsonArray(Top.loc), 1)
            ELSE FailsWith(ExpectedArraySeparator)
       /\ At("parse_array", "l235") =>
            (status' = "running" /\ stack'[Len(stack')].fn = "parse_value")
       /\ (At("parse_value", "l76") /\ (eof(input, pos) \/ peek(input, pos) = Ord["]"]))
            => status' = "error"
       /\ At("parse_array", "l236") =>
            stack'[Len(stack') - 1].loc = Append(Top.loc, ret)]_vars

---------------------------------------------------------------------------
(* C9, as claimed: in a string literal a backslash before any character    *)
(* other than " \ / b f n r t u fails with InvalidEscape, a backslash that *)
(* ends the input fails with InvalidEscape or UnterminatedString, and a    *)
(* literal the input ends in, its closing quote missing, fails with        *)
(* UnterminatedString; no value is returned.                               *)

EscapeLetters == Chars({"\"", "\\", "/", "b", "f", "n", "r", "t", "u"})

\* the cursor is on a backslash inside a string literal
AtBackslash == At("parse_string", "l164") /\ ~eof(input, pos) /\ peek(input, pos) = Ord["\\"]

\* the parser is inside a string literal whose closing quote it has not reached
InStringLiteral ==
    /\ status = "running"
    /\ stack # <<>>
    /\ Top.fn \in {"parse_string", "parse_unicode_escape"}
    /\ Top.pc # "l162"

C9_StringErrors_AsClaimed ==
    [][/\ (AtBackslash /\ ~eof(input, pos + 1) /\ peek(input, pos + 1) \notin EscapeLetters)
            => FailsWith(InvalidEscape)
       /\ (AtBackslash /\ eof(input, pos + 1))
            => FailsWith(InvalidEscape \cup UnterminatedString)
       /\ (At("parse_string", "l164") /\ eof(input, pos)) => FailsWith(UnterminatedString)
       /\ (InStringLiteral /\ eof(input, pos) /\ status' = "error")
            => FailsWith(UnterminatedString)]_vars

(* C9, amended: as claimed, but a literal the input ends in fails with     *)
(* UnterminatedString only when the input ends in the body of the string;  *)
(* when it ends within the four hex digits of a \u escape the failure is   *)
(* UnexpectedEnd ("Unexpected end of input in unicode escape").            *)
C9_StringErrors ==
    [][/\ (AtBackslash /\ ~eof(input, pos + 1) /\ peek(input, pos + 1) \notin EscapeLetters)
            => FailsWith(InvalidEscape)
       /\ (AtBackslash /\ eof(input, pos + 1))
            => FailsWith(InvalidEscape \cup UnterminatedString)
       /\ (At("parse_string", "l164") /\ eof(input, pos)) => FailsWith(UnterminatedString)
       /\ (At("parse_unicode_escape", "l200") /\ eof(input, pos))
            => FailsWith({"Unexpected end of input in unicode escape"})
       /\ (InStringLiteral /\ eof(input, pos) /\ status' = "error")
            => FailsWith(IF Top.fn = "parse_unicode_escape"
                         THEN UnexpectedEnd
                         ELSE UnterminatedString)]_vars

\* parse of "\u00 (the input ends in the escape) has failed with UnexpectedEnd
C9_Witness ==
    /\ status = "error"
    /\ input = Str(<<"\"", "\\", "u", "0", "0">>)
    /\ err = "Unexpected end of input in unicode escape"
    /\ result = NoValue

---------------------------------------------------------------------------
(* C10: every parse run ends, in exactly one terminal state: success with  *)
(* the cursor at the end of the input and a value, or one error with no    *)
(* value; nothing changes after it; and every loop iteration of the parser *)
(* (whitespace, digits, string characters, hex digits, array elements,     *)
(* object pairs) moves the cursor forward.                                 *)

\* this step runs the body of a loop and goes back to the loop's test
LoopIteration ==
    \/ /\ status = "running" /\ stack # <<>> /\ Top.fn = "skip_whitespace"
       /\ stack' = stack
    \/ /\ status = "running" /\ stack # <<>> /\ Top.fn = "parse_number"
       /\ Top.pc \in {"l127", "l139", "l152"}
       /\ stack' = stack
    \/ /\ At("parse_string", "l164")
       /\ status' = "running" /\ Len(stack') >= Len(stack)
    \/ /\ At("parse_unicode_escape", "l200")
       /\ status' = "running"
    \/ /\ (At("parse_array", "l237") \/ At("parse_object", "l270"))
       /\ status' = "running" /\ Len(stack') > Len(stack)

C10_Terminates ==
    /\ <>(status # "running")
    /\ [](status = "ok" => (pos = Len(input) /\ result # NoValue /\ err = ""))
    /\ [](status = "error" => (result = NoValue /\ err # ""))
    /\ [][status # "running" => UNCHANGED vars]_vars
    /\ [][LoopIteration => pos' > pos]_vars

\* parse("\ntrue") has returned true, every character consumed
C10_Witness ==
    /\ status = "ok"
    /\ input = Str(<<"\n", "t", "r", "u", "e">>)
    /\ pos = 5
    /\ result = JsonBool(TRUE)

---------------------------------------------------------------------------
(* C11: the cursor stays within 0..length(input) and never moves back; a   *)
(* step moves it only over characters the input has; peek() where the      *)
(* input has ended (the unguarded calls of parse_array and parse_object)   *)
(* raises UnexpectedEnd and leaves the cursor alone; and match() moves the *)
(* cursor only by the whole length of a keyword wholly present at it.      *)

\* the lines that call peek() with no test of eof() before, the input being able to end there
AtUnguardedPeek ==
    \/ At("parse_array", "l230")
    \/ At("parse_array", "l237")
    \/ At("parse_object", "l255")
    \/ At("parse_object", "l260")
    \/ At("parse_object", "l270")

\* the lines that call match(), with the keywords they try
MatchedKeywords ==
    IF At("parse_null", "l101") THEN {Str(<<"n", "u", "l", "l">>)}
    ELSE IF At("parse_bool", "l106")
    THEN {Str(<<"t", "r", "u", "e">>), Str(<<"f", "a", "l", "s", "e">>)}
    ELSE {}

C11_CursorInBounds ==
    /\ [](pos \in 0..Len(input))
    /\ [][pos' >= pos]_vars
    /\ [][pos' > pos => (pos < Len(input) /\ pos' <= Len(input))]_vars
    /\ [][(AtUnguardedPeek /\ eof(input, pos))
            => (FailsWith({"Unexpected end of input"}) /\ pos' = pos)]_vars
    /\ [][(MatchedKeywords # {} /\ pos' # pos)
            => \E text \in MatchedKeywords :
                    KeywordAt(input, pos, text) /\ pos' = pos + Len(text)]_vars

\* parse of {"a" has failed in expect(':') at the end of the input, the cursor still there
C11_Witness ==
    /\ status = "error"
    /\ input = Str(<<"{", "\"", "a", "\"">>)
    /\ pos = Len(input)
    /\ err \in ExpectedColon
    /\ result = NoValue

=============================================================================
